---- MODULE Spec2Model ----
(***************************************************************************)
(* A model of logger/invocationLogger.py: the metaclass InvocationLogger,  *)
(* its wrapper (_wrap), its member discovery (_overwriteMethods,           *)
(* _overwriteMethodsOnObj) and the two entry points Logged and LoggedObj,  *)
(* together with the Python attribute lookup and calling rules they rest   *)
(* on.                                                                     *)
(***************************************************************************)
EXTENDS Integers, Sequences, FiniteSets, TLC

VARIABLES
  decl,      \* class -> member name -> what the class body declares
  target,    \* the class handed to Logged, and the class of o1 and o2
  threads,   \* for each thread of execution, the members it calls
  limit,     \* how many member calls the callers make
  argset,    \* the argument lists the callers pass
  proxy,     \* the type Logged returned (the class __Proxy), once built
  objs,      \* instance -> its type and its instance dictionary (__dict__)
  install,   \* what Logged / LoggedObj gave its caller, by argument
  stack,     \* thread -> the invocations in flight, innermost last
  invs,      \* every invocation made so far, by number
  trace      \* sink calls and the start/end of each original, in order

vars == <<decl, target, threads, limit, argset, proxy, objs, install, stack, invs, trace>>

----------------------------------------------------------------------------
(* Bounds of the model *)

\* member calls made by the one caller of Spec, SpecMeta and SpecDiscovery
MaxCalls == 1

\* member calls made by the two threads of SpecThreads together
MaxThreadCalls == 2

----------------------------------------------------------------------------
(* Python values *)

IntV(n) == [t |-> "int", i |-> n, s |-> ""]

StrV(x) == [t |-> "str", i |-> 0, s |-> x]

NoneV == [t |-> "none", i |-> 0, s |-> ""]

ObjV(o) == [t |-> "obj", i |-> 0, s |-> o]

ClsV(c) == [t |-> "cls", i |-> 0, s |-> c]

Digit(d) ==
  CASE d = 0 -> "0" [] d = 1 -> "1" [] d = 2 -> "2" [] d = 3 -> "3"
    [] d = 4 -> "4" [] d = 5 -> "5" [] d = 6 -> "6" [] d = 7 -> "7"
    [] d = 8 -> "8" [] OTHER -> "9"

RECURSIVE NatToStr(_)
NatToStr(n) == IF n < 10 THEN Digit(n) ELSE NatToStr(n \div 10) \o Digit(n % 10)

\* str(v), and the text "%s" % v
Str(v) ==
  CASE v.t = "int" -> (IF v.i < 0 THEN "-" \o NatToStr(-v.i) ELSE NatToStr(v.i))
    [] v.t = "none" -> "None"
    [] v.t = "str" -> v.s
    [] v.t = "obj" -> "<" \o v.s \o " object>"
    [] OTHER -> "<class '" \o v.s \o "'>"

RECURSIVE Join(_, _)
\* sep.join(texts)
Join(texts, sep) ==
  IF texts = <<>> THEN ""
  ELSE IF Len(texts) = 1 THEN texts[1]
  ELSE texts[1] \o sep \o Join(Tail(texts), sep)

\* map(str, list(args))
StrArgs(args) == [k \in 1..Len(args) |-> Str(args[k])]

\* '%s=%s' % x for each item of kwargs, in the order the caller named them
StrKwargs(kwargs) == [k \in 1..Len(kwargs) |-> kwargs[k].k \o "=" \o Str(kwargs[k].v)]

\* The keyword arguments rendered before the positional ones
StringifyKwargsFirst(args, kwargs) == Join(StrKwargs(kwargs) \o StrArgs(args), ", ")

\* stringify(*args, **kwargs): ', '.join(chain(t, d))
Stringify(args, kwargs) == Join(StrArgs(args) \o StrKwargs(kwargs), ", ")

----------------------------------------------------------------------------
(* The classes the caller defines: their bases, metaclasses and bodies *)

Classes == {"object", "Base", "Left", "Right", "T", "Foo", "FooNew", "FooInit"}

\* cls.__bases__, in the order of the class statement
Bases(c) ==
  CASE c = "object" -> <<>>
    [] c = "Left" -> <<"Base">>
    [] c = "Right" -> <<"Base">>
    [] c = "T" -> <<"Left", "Right">>
    [] OTHER -> <<"object">>

\* type(cls): the metaclass of a class the caller defines
MetaOf(c) ==
  CASE c = "Foo" -> "MetaBar"
    [] c = "FooNew" -> "MetaNew"
    [] c = "FooInit" -> "MetaInit"
    [] OTHER -> "type"

\* The construction hooks a metaclass defines itself. MetaBar is the test's
\* metaclass (its body is pass); MetaNew overrides __new__(metaCls, name,
\* bases, namespace, **kwargs); MetaInit overrides __init__(cls, name, bases,
\* namespace, **kwargs).
MetaHooks(m) ==
  CASE m = "MetaNew" -> {"__new__"}
    [] m = "MetaInit" -> {"__init__"}
    [] OTHER -> {}

\* Every member name, in the order sorted() gives ('_' sorts before a letter)
NameOrder ==
  << "_hidden", "base1", "boom", "cm", "data", "foo", "inst", "m", "nest",
     "prop", "shadow", "sm" >>

Names == {NameOrder[k] : k \in 1..Len(NameOrder)}

\* obj.startswith('_')
StartsWithUnderscore(n) == n \in {"_hidden"}

NoDecl == [kind |-> "absent", body |-> "-"]

Fn(body) == [kind |-> "function", body |-> body]

\* The classes of the test file (_Base, _Object, Foo) with further members:
\* a static method, a class method, a data field, a property, a private
\* method, a data field that hides an inherited method.
FixedDecl ==
  [c \in Classes |->
    [n \in Names |->
      CASE c = "Base" /\ n = "base1" -> Fn("sum")
        [] c = "Base" /\ n = "shadow" -> Fn("none")
        [] c = "T" /\ n = "_hidden" -> Fn("none")
        [] c = "T" /\ n = "boom" -> Fn("raise")
        [] c = "T" /\ n = "data" -> [kind |-> "data", body |-> "-"]
        [] c = "T" /\ n = "m" -> Fn("none")
        [] c = "T" /\ n = "nest" -> Fn("nest")
        [] c = "T" /\ n = "prop" -> [kind |-> "property", body |-> "-"]
        [] c = "T" /\ n = "shadow" -> [kind |-> "data", body |-> "-"]
        [] c = "T" /\ n = "sm" -> [kind |-> "static", body |-> "sum"]
        [] c \in {"Foo", "FooNew", "FooInit"} /\ n = "foo" -> Fn("none")
        [] c \in {"Foo", "FooNew", "FooInit"} /\ n = "cm" ->
             [kind |-> "classm", body |-> "none"]
        [] OTHER -> NoDecl]]

----------------------------------------------------------------------------
(* Attribute lookup on a class: the method resolution order, dir, getattr *)

RECURSIVE InTail(_, _)
\* c occurs in the tail of one of the lists
InTail(c, lists) ==
  /\ lists # <<>>
  /\ \/ \E k \in 2..Len(Head(lists)) : Head(lists)[k] = c
     \/ InTail(c, Tail(lists))

RECURSIVE DropFrom(_, _)
\* the lists without c at their heads, empty lists removed
DropFrom(c, lists) ==
  IF lists = <<>> THEN <<>>
  ELSE (IF Head(lists) = <<>> \/ Head(lists) = <<c>> THEN <<>>
        ELSE IF Head(Head(lists)) = c THEN <<Tail(Head(lists))>>
        ELSE <<Head(lists)>>) \o DropFrom(c, Tail(lists))

\* the head of the first list whose head is in no tail
GoodHead(lists) ==
  Head(lists[CHOOSE k \in 1..Len(lists) :
               /\ ~InTail(Head(lists[k]), lists)
               /\ \A j \in 1..(k - 1) : InTail(Head(lists[j]), lists)])

RECURSIVE Merge(_)
\* the C3 merge: the first head that is in no tail, repeatedly
Merge(lists) ==
  IF lists = <<>> THEN <<>>
  ELSE <<GoodHead(lists)>> \o Merge(DropFrom(GoodHead(lists), lists))

RECURSIVE Mro(_)
\* cls.__mro__
Mro(c) ==
  <<c>> \o Merge(DropFrom("", [k \in 1..Len(Bases(c)) |-> Mro(Bases(c)[k])]
                               \o <<Bases(c)>>))

MroOf == [c \in Classes |-> Mro(c)]

\* the first class of the resolution order that declares n
Owner(c, n) ==
  IF \A k \in 1..Len(MroOf[c]) : decl[MroOf[c][k]][n].kind = "absent" THEN ""
  ELSE MroOf[c][CHOOSE k \in 1..Len(MroOf[c]) :
                  /\ decl[MroOf[c][k]][n].kind # "absent"
                  /\ \A j \in 1..(k - 1) : decl[MroOf[c][j]][n].kind = "absent"]

\* dir(cls): the names visible on the class, sorted
Dir(c) == SelectSeq(NameOrder, LAMBDA n : Owner(c, n) # "")

AttrOf(c, n, o) ==
  [kind |-> decl[o][n].kind, body |-> decl[o][n].body, owner |-> o, fname |-> n,
   bound |-> IF decl[o][n].kind = "classm" THEN <<ClsV(c)>> ELSE <<>>]

\* getattr(cls, n) for a name of dir(cls): the most-derived definition, as
\* access through the class gives it. A class method comes bound to cls (the
\* arguments in "bound" precede the caller's); a function and a static
\* method come as the plain function. fname is its __name__.
GetAttr(c, n) == AttrOf(c, n, Owner(c, n))

\* callable(attr)
Callable(attr) == attr.kind \in {"function", "static", "classm", "wrapper"}

----------------------------------------------------------------------------
(* InvocationLogger: the wrapper and the member discovery *)

Put(f, k, v) == [x \in DOMAIN f \cup {k} |-> IF x = k THEN v ELSE f[x]]

EmptyDict == [x \in {} |-> NoDecl]

\* _wrap(function, class_name, logger): the closure it returns
Wrap(function, class_name) ==
  [kind |-> "wrapper", function |-> function, class_name |-> class_name]

\* One round of the loop: a name that is not in the namespace yet, is public
\* and whose attribute is callable is replaced by its wrapped version
OverwriteName(cls, obj, acc, class_name) ==
  IF /\ ~(obj \in DOMAIN acc.ns)
     /\ ~StartsWithUnderscore(obj)
     /\ Callable(GetAttr(cls, obj))
  THEN [ns |-> Put(acc.ns, obj, Wrap(GetAttr(cls, obj), class_name)),
        installs |-> Append(acc.installs, obj)]
  ELSE acc

RECURSIVE OverwriteNames(_, _, _, _)
\* the for loop of _overwriteMethods over dir(cls); acc.ns is the namespace,
\* acc.installs records each assignment namespace[obj] = ... in order
OverwriteNames(cls, names, acc, class_name) ==
  IF names = <<>> THEN acc
  ELSE OverwriteNames(cls, Tail(names), OverwriteName(cls, Head(names), acc, class_name),
                      class_name)

RECURSIVE OverwriteWalk(_, _, _)
\* The recursion of _overwriteMethods, depth first: the names of the class
\* at the head of `pending`, then "for base in cls.__bases__" each base with
\* its own bases, before the classes that were pending already
OverwriteWalk(pending, acc, class_name) ==
  IF pending = <<>> THEN acc
  ELSE OverwriteWalk(Bases(Head(pending)) \o Tail(pending),
                     OverwriteNames(Head(pending), Dir(Head(pending)), acc, class_name),
                     class_name)

\* _overwriteMethods(cls, namespace, class_name, logger)
OverwriteMethods(cls, acc, class_name) == OverwriteWalk(<<cls>>, acc, class_name)

\* "for base in bases: InvocationLogger._overwriteMethods(base, namespace, ...)"
OverwriteBases(bases, acc, class_name) == OverwriteWalk(bases, acc, class_name)

----------------------------------------------------------------------------
(* Logged: the metaclass Meta and the construction of __Proxy *)

\* Meta = type('InvocationLogger', (InvocationLogger, type(cls)), {}): its
\* resolution order
MetaMro(cls) ==
  <<"Meta", "InvocationLogger">>
    \o (IF MetaOf(cls) = "type" THEN <<>> ELSE <<MetaOf(cls)>>) \o <<"type">>

\* whether metaclass m defines the hook itself
Defines(m, hook) ==
  \/ m \in {"InvocationLogger", "type"}
  \/ hook \in MetaHooks(m)

\* the first class of mro after position k that defines hook
NextDefining(mro, k, hook) ==
  mro[CHOOSE j \in (k + 1)..Len(mro) :
        /\ Defines(mro[j], hook)
        /\ \A i \in (k + 1)..(j - 1) : ~Defines(mro[i], hook)]

\* The class InvocationLogger.__new__ hands the creation of the type to:
\* "return type.__new__(metaCls, name, bases, namespace)"
NewCallee(mro) == "type"

\* "super().__init__(self)" in InvocationLogger.__init__: the next __init__
\* after InvocationLogger, called with the one argument self
InitCallee(mro) == NextDefining(mro, 2, "__init__")

\* The hooks after hook `from` that run when each one hands on to its
\* super(), as the caller's metaclasses do
RECURSIVE SuperChain(_, _, _)
SuperChain(mro, m, hook) ==
  IF m = "type" THEN <<"type." \o hook>>
  ELSE <<m \o "." \o hook>>
         \o SuperChain(mro,
                        NextDefining(mro, CHOOSE j \in 1..Len(mro) : mro[j] = m, hook),
                        hook)

\* InvocationLogger.__new__: discovery over the bases, then the creation
InvocationLoggerNew(cls, class_name) ==
  [acc |-> OverwriteBases(<<cls>>, [ns |-> EmptyDict, installs |-> <<>>], class_name),
   steps |-> <<"InvocationLogger.__new__", "discovery">>
               \o SuperChain(MetaMro(cls), NewCallee(MetaMro(cls)), "__new__")]

\* InvocationLogger.__init__: MetaInit.__init__(cls, name, bases, namespace)
\* called with cls alone raises TypeError; type.__init__ accepts it
InvocationLoggerInit(cls) ==
     IF InitCallee(MetaMro(cls)) = "type"
     THEN [raised |-> FALSE, steps |-> <<"InvocationLogger.__init__", "type.__init__">>]
     ELSE [raised |-> TRUE, steps |-> <<"InvocationLogger.__init__">>]

Built(cls, n, i) ==
  [built |-> ~i.raised, target |-> cls, ns |-> n.acc.ns, installs |-> n.acc.installs,
   class_name |-> cls, steps |-> n.steps \o i.steps, raised |-> i.raised]

\* The class statement of Logged: Meta(name, bases, namespace, class_name=
\* cls.__name__, logger=logger) runs Meta.__new__, then Meta.__init__
BuildProxy(cls) == Built(cls, InvocationLoggerNew(cls, cls), InvocationLoggerInit(cls))

NoProxy ==
  [built |-> FALSE, target |-> "", ns |-> EmptyDict, installs |-> <<>>,
   class_name |-> "", steps |-> <<>>, raised |-> FALSE]

----------------------------------------------------------------------------
(* Instances and attribute lookup on an instance *)

\* p1 is the instance the caller makes of the type Logged returns; o1 and o2
\* are instances of the target class itself
Objects == {"p1", "o1", "o2"}

ProxyName == "__Proxy"

\* type(obj).__name__
TypeName(typ) == typ

\* whether the name resolves on the type (getattr raises AttributeError if not)
TypeHas(typ, n) ==
  IF typ = ProxyName
  THEN n \in DOMAIN proxy.ns \/ Owner(proxy.target, n) # ""
  ELSE Owner(typ, n) # ""

\* getattr(type, n): for __Proxy its own namespace comes first
TypeAttr(typ, n) ==
  IF typ = ProxyName
  THEN IF n \in DOMAIN proxy.ns THEN proxy.ns[n] ELSE GetAttr(proxy.target, n)
  ELSE GetAttr(typ, n)

\* dir(obj): the names of the instance dictionary and of the type, sorted
DirObj(o) ==
  SelectSeq(NameOrder,
            LAMBDA n : n \in DOMAIN objs[o].dict \/ TypeHas(objs[o].cls, n))

NotCallable == [c |-> "value", w |-> NoDecl, f |-> NoDecl, pre |-> <<>>]

ResolveIn(o, n, has, ta, d) ==
     IF has /\ ta.kind = "property" THEN NotCallable
     ELSE IF n \in DOMAIN d
       THEN IF d[n].kind = "lambda"
            THEN [c |-> "wrapper", w |-> d[n].fn, f |-> d[n].fn.function,
                  pre |-> <<ObjV(d[n].cls)>>]
            ELSE NotCallable
     ELSE IF ~has THEN NotCallable
     ELSE CASE ta.kind = "wrapper" ->
                 [c |-> "wrapper", w |-> ta, f |-> ta.function, pre |-> <<ObjV(o)>>]
            [] ta.kind = "function" ->
                 [c |-> "orig", w |-> NoDecl, f |-> ta, pre |-> <<ObjV(o)>>]
            [] ta.kind \in {"static", "classm"} ->
                 [c |-> "orig", w |-> NoDecl, f |-> ta, pre |-> ta.bound]
            [] OTHER -> NotCallable

\* What obj.n gives the caller. A property of the type wins over the
\* instance dictionary, the instance dictionary over the other attributes
\* of the type. A callable comes with the arguments that calling it puts
\* before the caller's (pre): the receiver for a function held by the type
\* and for the closure LoggedObj installs, the class for a class method,
\* none for a static method.
Resolve(o, n) ==
  ResolveIn(o, n, TypeHas(objs[o].cls, n),
            IF TypeHas(objs[o].cls, n) THEN TypeAttr(objs[o].cls, n) ELSE NoDecl,
            objs[o].dict)

----------------------------------------------------------------------------
(* LoggedObj: _overwriteMethodsOnObj *)

\* bind(attr): fn = _wrap(attr, type(cls).__name__, logger), and the closure
\* lambda *args, **kwargs: fn(cls, *args, **kwargs)
Bind(attr, cls) ==
  [kind |-> "lambda", fn |-> Wrap(attr, TypeName(objs[cls].cls)), cls |-> cls]

\* The attribute set on the type: every instance of it is changed
SetAttrOnType(cls) == {o \in {"o1", "o2"} : objs[o].cls = objs[cls].cls}

\* The objects setattr(cls, obj, ...) changes: cls alone
SetAttrTargets(cls) == {cls}

RECURSIVE OverwriteOnObj(_, _, _)
\* the for loop of _overwriteMethodsOnObj over dir(cls); getattr(type(cls),
\* obj) raises AttributeError for a name the type does not have, which ends
\* the loop with the attributes set so far
OverwriteOnObj(cls, names, acc) ==
  IF names = <<>> THEN acc
  ELSE IF StartsWithUnderscore(Head(names))
       THEN OverwriteOnObj(cls, Tail(names), acc)
       ELSE IF ~TypeHas(objs[cls].cls, Head(names))
       THEN [acc EXCEPT !.raised = TRUE]
       ELSE IF Callable(TypeAttr(objs[cls].cls, Head(names)))
       THEN OverwriteOnObj(cls, Tail(names),
              [acc EXCEPT !.set = Put(acc.set, Head(names),
                                      Bind(TypeAttr(objs[cls].cls, Head(names)), cls))])
       ELSE OverwriteOnObj(cls, Tail(names), acc)

\* _overwriteMethodsOnObj(cls, logger)
OverwriteMethodsOnObj(cls) ==
  OverwriteOnObj(cls, DirObj(cls), [set |-> EmptyDict, raised |-> FALSE])

\* d with the entries of set written over it
Update(d, set) ==
  [x \in DOMAIN d \cup DOMAIN set |-> IF x \in DOMAIN set THEN set[x] ELSE d[x]]

----------------------------------------------------------------------------
(* The original implementations *)

NoFault == [kind |-> "", msg |-> ""]

Pending == [o |-> "pending", v |-> NoneV, e |-> NoFault]

Ret(v) == [o |-> "return", v |-> v, e |-> NoFault]

Raise(kind, msg) == [o |-> "raise", v |-> NoneV, e |-> [kind |-> kind, msg |-> msg]]

\* the body asks for self.base1(24, 42) and returns what that gives
CallSelf == [o |-> "call", v |-> NoneV, e |-> NoFault]

NestCallee == "base1"

NestArgs == <<IntV(24), IntV(42)>>

\* the parameters of a body after the receiver
BodyParams(body) == IF body = "sum" THEN <<"arg1", "arg2">> ELSE <<>>

Params(f) ==
  (CASE f.kind = "function" -> <<"self">>
     [] f.kind = "classm" -> <<"cls">>
     [] OTHER -> <<>>) \o BodyParams(f.body)

\* the arguments fit the parameters: none too many, each parameter left
\* named once
Fits(params, delivered, kw) ==
  /\ Len(delivered) <= Len(params)
  /\ Len(kw) = Len(params) - Len(delivered)
  /\ {kw[k].k : k \in 1..Len(kw)}
       = {params[k] : k \in (Len(delivered) + 1)..Len(params)}

\* the value bound to the parameter (None if the body has no such parameter)
Arg(params, delivered, kw, name) ==
  IF \A j \in 1..Len(params) : params[j] # name THEN NoneV
  ELSE IF (CHOOSE j \in 1..Len(params) : params[j] = name) <= Len(delivered)
  THEN delivered[CHOOSE j \in 1..Len(params) : params[j] = name]
  ELSE kw[CHOOSE j \in 1..Len(kw) : kw[j].k = name].v

ImplBody(body, arg1, arg2) ==
  CASE body = "none" -> Ret(NoneV)
    [] body = "raise" -> Raise("RuntimeError", "exception")
    [] body = "sum" ->
         IF arg1.t = "int" /\ arg2.t = "int"
         THEN Ret(IntV(arg1.i + arg2.i))
         ELSE Raise("TypeError", "operand")
    [] OTHER -> CallSelf

\* Calling the original with the positional arguments `delivered` and the
\* keyword arguments kw. Python binds them to the parameters (TypeError if
\* they do not fit), then the body runs: "none" returns None (method1),
\* "raise" raises RuntimeError("exception") (method4), "sum" returns
\* arg1 + arg2 (method3, baseMethod1), "nest" calls another member on self.
Impl(f, delivered, kw) ==
  IF ~Fits(Params(f), delivered, kw) THEN Raise("TypeError", "arguments")
  ELSE ImplBody(f.body, Arg(Params(f), delivered, kw, "arg1"),
                Arg(Params(f), delivered, kw, "arg2"))

\* What the call o.n(*pos, **kw) delivers to the original and gives the
\* caller when nothing is instrumented: o is an instance of class c
PlainPre(c, o, n) ==
  IF GetAttr(c, n).kind = "function" THEN <<ObjV(o)>> ELSE GetAttr(c, n).bound

PlainDelivered(c, o, n, pos) == PlainPre(c, o, n) \o pos

RECURSIVE PlainOutcome(_, _, _, _, _)
PlainOutcome(c, o, n, pos, kw) ==
  IF Impl(GetAttr(c, n), PlainDelivered(c, o, n, pos), kw).o = "call"
  THEN PlainOutcome(c, o, NestCallee, NestArgs, <<>>)
  ELSE Impl(GetAttr(c, n), PlainDelivered(c, o, n, pos), kw)

----------------------------------------------------------------------------
(* The wrapper: what one call of it does *)

\* The prefix built from the class that declares the function
PrefixOfDeclaringClass(w) == w.function.owner \o "." \o w.function.fname

\* prefix = "%s.%s" % (class_name, function.__name__)
Prefix(w) == w.class_name \o "." \o w.function.fname

\* logger("%s(%s)", prefix, stringify(*args, **kwargs))
CallRecord(w, args, kwargs) ==
  [template |-> "%s(%s)", args |-> <<StrV(Prefix(w)), StrV(Stringify(args, kwargs))>>]

\* logger("%s: %s", prefix, result)
ResultRecord(w, result) ==
  [template |-> "%s: %s", args |-> <<StrV(Prefix(w)), result>>]

\* logger("%s: raised %s (\"%s\")", prefix, type(e).__name__, str(e))
FaultRecord(w, e) ==
  [template |-> "%s: raised %s (\"%s\")",
   args |-> <<StrV(Prefix(w)), StrV(e.kind), StrV(e.msg)>>]

\* the arguments the wrapper hands to function(instance, *args, **kwargs):
\* its own, unchanged; function's binding (a class method's class) precedes
WrapperDelivers(w, full) == w.function.bound \o full

\* The result record logged whatever the outcome
AfterRecordNoExcept(w, outcome) == ResultRecord(w, outcome.v)

\* the sink call after the original: the except branch or the line after it
AfterRecord(w, outcome) ==
  IF outcome.o = "raise" THEN FaultRecord(w, outcome.e) ELSE ResultRecord(w, outcome.v)

\* The except branch without its "raise": the fault is swallowed
WrapperSwallows(outcome) == IF outcome.o = "raise" THEN Ret(NoneV) ELSE outcome

\* what the wrapper gives its caller: "raise" re-raises e, "return result"
WrapperResult(outcome) == outcome

----------------------------------------------------------------------------
(* State *)

Threads == {"t1", "t2"}

NoRec == [template |-> "", args |-> <<>>]

SinkEv(id, rec) == [ev |-> "sink", inv |-> id, rec |-> rec]

StartEv(id) == [ev |-> "start", inv |-> id, rec |-> NoRec]

EndEv(id) == [ev |-> "end", inv |-> id, rec |-> NoRec]

\* The argument lists the caller passes: scenarios 1, 2 and 5 of the tests,
\* and two keyword arguments
ArgChoices ==
  { [pos |-> <<>>, kw |-> <<>>],
    [pos |-> <<IntV(24), IntV(42)>>, kw |-> <<>>],
    [pos |-> <<IntV(2)>>, kw |-> <<[k |-> "arg2", v |-> IntV(4)]>>],
    [pos |-> <<>>, kw |-> <<[k |-> "arg2", v |-> IntV(4)], [k |-> "arg1", v |-> IntV(2)]>>] }

NotInstalled == [called |-> FALSE, raised |-> FALSE, result |-> ""]

Installed(raised, result) ==
  [called |-> TRUE, raised |-> raised, result |-> IF raised THEN "" ELSE result]

Top(t) == stack[t][Len(stack[t])]

Idle == \A t \in Threads : stack[t] = <<>>

TopCalls == Cardinality({k \in 1..Len(invs) : invs[k].parent = 0})

\* a new invocation of what Resolve gave, made from invocation `parent`
NewInv(t, r, o, n, pos, kw, parent) ==
  [thread |-> t, obj |-> o, name |-> n, pos |-> pos, kw |-> kw,
   wrapped |-> r.c = "wrapper", w |-> r.w, f |-> r.f, full |-> r.pre \o pos,
   parent |-> parent, delivered |-> <<>>, outcome |-> Pending, result |-> Pending,
   state |-> IF r.c = "wrapper" THEN "enter" ELSE "exec"]

\* self.inst = ... : a data field held only on the instance
InstField == [x \in {"inst"} |-> [kind |-> "data", body |-> "-"]]

\* o1 and o2 are instances of cls, and o2 holds a data field of its own
InitObjs(cls) ==
  [o \in Objects |->
    [exists |-> o # "p1",
     cls |-> IF o = "p1" THEN ProxyName ELSE cls,
     dict |-> IF o = "o2" THEN InstField ELSE EmptyDict]]

\* one thread calls any member
OneThread == [t \in Threads |-> IF t = "t1" THEN Names ELSE {}]

InitCommon ==
  /\ proxy = NoProxy
  /\ install = [x \in {"Logged", "o1", "o2"} |-> NotInstalled]
  /\ stack = [t \in Threads |-> <<>>]
  /\ invs = <<>>
  /\ trace = <<>>

Init ==
  /\ decl = FixedDecl
  /\ target = "T"
  /\ threads = OneThread
  /\ limit = MaxCalls
  /\ argset = ArgChoices
  /\ objs = InitObjs(target)
  /\ InitCommon

\* Two threads call members of one instance of the instrumented type: t1
\* calls nest, which calls base1 on self, and t2 calls base1
ThreadDecl ==
  [c \in Classes |->
    [n \in Names |->
      CASE c = "Base" /\ n = "base1" -> Fn("sum")
        [] c = "T" /\ n = "nest" -> Fn("nest")
        [] OTHER -> NoDecl]]

InitThreads ==
  /\ decl = ThreadDecl
  /\ target = "T"
  /\ threads = [t \in Threads |-> IF t = "t1" THEN {"nest"} ELSE {"base1"}]
  /\ limit = MaxThreadCalls
  /\ argset = {[pos |-> <<>>, kw |-> <<>>]}
  /\ objs = [o \in Objects |-> [InitObjs(target)[o] EXCEPT !.exists = FALSE]]
  /\ InitCommon

\* The target class has a metaclass of its own
InitMeta ==
  /\ decl = FixedDecl
  /\ target \in {"Foo", "FooNew", "FooInit"}
  /\ threads = OneThread
  /\ limit = MaxCalls
  /\ argset = {[pos |-> <<>>, kw |-> <<>>]}
  /\ objs = InitObjs(target)
  /\ InitCommon

\* What a class body may do with a name: leave it out, define a method,
\* define a data field
DeclChoices == {NoDecl, Fn("none"), [kind |-> "data", body |-> "-"]}

\* Every way for Base, Left, Right and T (T(Left, Right), Left(Base),
\* Right(Base)) to declare the names m and shadow
DiscoveryDecls ==
  { [c \in Classes |->
      [n \in Names |->
        IF c \in {"Base", "Left", "Right", "T"} /\ n \in {"m", "shadow"}
        THEN f[<<c, n>>] ELSE NoDecl]] :
    f \in [{"Base", "Left", "Right", "T"} \X {"m", "shadow"} -> DeclChoices] }

InitDiscovery ==
  /\ decl \in DiscoveryDecls
  /\ target = "T"
  /\ threads = OneThread
  /\ limit = MaxCalls
  /\ argset = {[pos |-> <<>>, kw |-> <<>>]}
  /\ objs = InitObjs(target)
  /\ InitCommon

----------------------------------------------------------------------------
(* Operations *)

\* Logged(cls, logger), and the caller's instance of the type it returns
DoLogged(cls) ==
  /\ cls = target
  /\ proxy = NoProxy
  /\ Idle
  /\ proxy' = BuildProxy(cls)
  /\ objs' = [objs EXCEPT !["p1"].exists = proxy'.built]
  /\ install' = [install EXCEPT !["Logged"] = Installed(proxy'.raised, ProxyName)]
  /\ UNCHANGED <<decl, target, threads, limit, argset, stack, invs, trace>>

LoggedObjDone(obj, r) ==
  /\ objs' = [o \in Objects |->
                IF o \in SetAttrTargets(obj)
                THEN [objs[o] EXCEPT !.dict = Update(objs[o].dict, r.set)]
                ELSE objs[o]]
  /\ install' = [install EXCEPT ![obj] = Installed(r.raised, obj)]

\* LoggedObj(obj, logger)
DoLoggedObj(obj) ==
  /\ obj \in {"o1", "o2"}
  /\ Idle
  /\ LoggedObjDone(obj, OverwriteMethodsOnObj(obj))
  /\ UNCHANGED <<decl, target, threads, limit, argset, proxy, stack, invs, trace>>

\* the caller's o.n(*pos, **kw), on thread t
Call(t, o, n, a) ==
  /\ n \in threads[t]
  /\ stack[t] = <<>>
  /\ TopCalls < limit
  /\ a \in argset
  /\ objs[o].exists
  /\ Resolve(o, n).c # "value"
  /\ invs' = Append(invs, NewInv(t, Resolve(o, n), o, n, a.pos, a.kw, 0))
  /\ stack' = [stack EXCEPT ![t] = <<Len(invs) + 1>>]
  /\ UNCHANGED <<decl, target, threads, limit, argset, proxy, objs, install, trace>>

\* The wrapper calling the original without logging the call first
EnterUnlogged(t) ==
  /\ stack[t] # <<>>
  /\ invs[Top(t)].state = "enter"
  /\ invs' = [invs EXCEPT ![Top(t)].state = "exec"]
  /\ UNCHANGED <<decl, target, threads, limit, argset, proxy, objs, install, stack, trace>>

\* the wrapper up to its call of the original: prefix, and the call record
Enter(t) ==
  /\ stack[t] # <<>>
  /\ invs[Top(t)].state = "enter"
  /\ trace' = Append(trace, SinkEv(Top(t), CallRecord(invs[Top(t)].w,
                                                      Tail(invs[Top(t)].full),
                                                      invs[Top(t)].kw)))
  /\ invs' = [invs EXCEPT ![Top(t)].state = "exec"]
  /\ UNCHANGED <<decl, target, threads, limit, argset, proxy, objs, install, stack>>

\* the arguments the original of invocation i receives
Delivered(i) == IF i.wrapped THEN WrapperDelivers(i.w, i.full) ELSE i.full

\* the original calls NestCallee on self, which resolves to callee
ExecCall(t, id, delivered, callee) ==
  /\ invs' = Append([invs EXCEPT ![id].state = "await", ![id].delivered = delivered],
                    NewInv(t, callee, delivered[1].s, NestCallee, NestArgs, <<>>, id))
  /\ stack' = [stack EXCEPT ![t] = Append(@, Len(invs) + 1)]
  /\ trace' = Append(trace, StartEv(id))

\* the original runs to its end with outcome r
ExecEnd(t, id, delivered, r) ==
  /\ invs' = [invs EXCEPT ![id].state = "done", ![id].delivered = delivered,
                          ![id].outcome = r]
  /\ stack' = stack
  /\ trace' = trace \o <<StartEv(id), EndEv(id)>>

ExecWith(t, id, delivered, r) ==
  IF r.o # "call" THEN ExecEnd(t, id, delivered, r)
  ELSE IF Resolve(delivered[1].s, NestCallee).c = "value"
  THEN ExecEnd(t, id, delivered, Raise("TypeError", "not callable"))
  ELSE ExecCall(t, id, delivered, Resolve(delivered[1].s, NestCallee))

\* the original implementation runs: to its end, or to its call of another
\* member on self
Exec(t) ==
  /\ stack[t] # <<>>
  /\ invs[Top(t)].state = "exec"
  /\ ExecWith(t, Top(t), Delivered(invs[Top(t)]),
              Impl(invs[Top(t)].f, Delivered(invs[Top(t)]), invs[Top(t)].kw))
  /\ UNCHANGED <<decl, target, threads, limit, argset, proxy, objs, install>>

FinishWith(t, id, i, out, logged) ==
  /\ stack' = [stack EXCEPT ![t] = SubSeq(@, 1, Len(@) - 1)]
  /\ IF i.parent = 0
     THEN /\ invs' = [invs EXCEPT ![id].state = "returned", ![id].result = out]
          /\ trace' = logged
     ELSE /\ invs' = [invs EXCEPT ![id].state = "returned", ![id].result = out,
                                  ![i.parent].state = "done",
                                  ![i.parent].outcome = out]
          /\ trace' = Append(logged, EndEv(i.parent))

\* what invocation i gives its caller
Result(i) == IF i.wrapped THEN WrapperResult(i.outcome) ELSE i.outcome

\* The wrapper returning to its caller without a second sink call
ReturnUnlogged(id, i) == trace

\* the trace after the wrapper's second sink call, if i is wrapped
Logged2(id, i) ==
  IF i.wrapped THEN Append(trace, SinkEv(id, AfterRecord(i.w, i.outcome))) ELSE trace

\* the invocation returns to its caller: the wrapper logs the result or the
\* fault first; a calling original goes on with what it got
Finish(t) ==
  /\ stack[t] # <<>>
  /\ invs[Top(t)].state = "done"
  /\ FinishWith(t, Top(t), invs[Top(t)], Result(invs[Top(t)]),
                Logged2(Top(t), invs[Top(t)]))
  /\ UNCHANGED <<decl, target, threads, limit, argset, proxy, objs, install>>

Next ==
  \/ \E c \in Classes : DoLogged(c)
  \/ \E o \in Objects : DoLoggedObj(o)
  \/ \E t \in Threads, o \in Objects, n \in Names, a \in ArgChoices : Call(t, o, n, a)
  \/ \E t \in Threads : Enter(t)
  \/ \E t \in Threads : Exec(t)
  \/ \E t \in Threads : Finish(t)

Spec == Init /\ [][Next]_vars

NextThreads ==
  \/ \E c \in Classes : DoLogged(c)
  \/ \E t \in Threads, n \in Names, a \in ArgChoices : Call(t, "p1", n, a)
  \/ \E t \in Threads : Enter(t)
  \/ \E t \in Threads : Exec(t)
  \/ \E t \in Threads : Finish(t)

SpecThreads == InitThreads /\ [][NextThreads]_vars

SpecMeta == InitMeta /\ [][Next]_vars

NextDiscovery == \E c \in Classes : DoLogged(c)

SpecDiscovery == InitDiscovery /\ [][NextDiscovery]_vars

----------------------------------------------------------------------------
(* Properties *)

Ids == 1..Len(invs)

\* the places of invocation id's events of kind ev in the trace
EvAt(id, ev) == {k \in 1..Len(trace) : trace[k].inv = id /\ trace[k].ev = ev}

SinkAt(id) == EvAt(id, "sink")

Min(S) == CHOOSE x \in S : \A y \in S : x <= y

Max(S) == CHOOSE x \in S : \A y \in S : y <= x

\* the name of the type the instrumentation was installed for
Label(o) == IF o = "p1" THEN proxy.target ELSE objs[o].cls

\* "<TypeLabel>.<memberName>" for invocation i
ExpectedPrefix(i) == StrV(Label(i.obj) \o "." \o i.name)

\* invocation id was made, directly or not, by the original of invocation anc
RECURSIVE NestedIn(_, _)
NestedIn(id, anc) ==
  /\ invs[id].parent # 0
  /\ \/ invs[id].parent = anc
     \/ NestedIn(invs[id].parent, anc)

\* the call record precedes the start of the original, and is the first
\* sink call of the invocation
CallRecordFirst(id) ==
  /\ SinkAt(id) # {}
  /\ trace[Min(SinkAt(id))].rec.template = "%s(%s)"
  /\ Len(trace[Min(SinkAt(id))].rec.args) = 2
  /\ \A k \in EvAt(id, "start") : Min(SinkAt(id)) < k

\* the second sink call follows the end of the original
AfterRecordLast(id) ==
  /\ EvAt(id, "start") # {}
  /\ EvAt(id, "end") # {}
  /\ \A k \in EvAt(id, "end") : k < Max(SinkAt(id))

C2_FaultLoggedAndReraised ==
  \A id \in Ids :
    (invs[id].wrapped /\ invs[id].state = "returned" /\ invs[id].outcome.o = "raise")
      => /\ Cardinality(SinkAt(id)) = 2
         /\ CallRecordFirst(id)
         /\ AfterRecordLast(id)
         /\ trace[Max(SinkAt(id))].rec
              = [template |-> "%s: raised %s (\"%s\")",
                 args |-> << trace[Min(SinkAt(id))].rec.args[1],
                             StrV(invs[id].outcome.e.kind),
                             StrV(invs[id].outcome.e.msg) >>]
         /\ \A k \in SinkAt(id) : trace[k].rec.template # "%s: %s"
         /\ invs[id].result.o = "raise"
         /\ invs[id].result.e = invs[id].outcome.e

\* the wrapped boom has raised RuntimeError("exception") to the caller
C2_Witness ==
  \E id \in Ids :
    /\ invs[id].wrapped
    /\ invs[id].state = "returned"
    /\ invs[id].name = "boom"
    /\ invs[id].outcome = Raise("RuntimeError", "exception")

\* whether the member is a public callable member of the uninstrumented type
PublicCallable(c, n) ==
  /\ ~StartsWithUnderscore(n)
  /\ Owner(c, n) # ""
  /\ Callable(GetAttr(c, n))

\* C3: a call of a public callable member through the instrumentation
\* delivers to the original the arguments the caller passed and gives the
\* caller the outcome of the same call on the uninstrumented type.
C3_SameArgumentsAndOutcome ==
  \A id \in Ids :
    (/\ invs[id].wrapped
     /\ invs[id].state = "returned"
     /\ PublicCallable(Label(invs[id].obj), invs[id].name))
      => /\ invs[id].delivered
              = PlainDelivered(Label(invs[id].obj), invs[id].obj, invs[id].name,
                               invs[id].pos)
         /\ invs[id].result
              = PlainOutcome(Label(invs[id].obj), invs[id].obj, invs[id].name,
                             invs[id].pos, invs[id].kw)

\* C4 as stated: the call record precedes the start of the original, the
\* result or fault record follows its end, and no sink call of another
\* invocation lies between the two records.
C4_NoOtherSinkCallBetween ==
  \A id \in Ids :
    (invs[id].wrapped /\ invs[id].state = "returned")
      => /\ Cardinality(SinkAt(id)) = 2
         /\ CallRecordFirst(id)
         /\ AfterRecordLast(id)
         /\ \A k \in Min(SinkAt(id))..Max(SinkAt(id)) :
              trace[k].ev = "sink" => trace[k].inv = id

\* C4, amended: the call record precedes the start of the original, the
\* result or fault record follows its end, and a sink call between the two
\* records belongs to the invocation, to an invocation nested in it, or to
\* an invocation on another thread.
C4_OnlyNestedOrOtherThreadBetween ==
  \A id \in Ids :
    /\ (invs[id].wrapped /\ invs[id].state \in {"await", "done", "returned"})
         => CallRecordFirst(id)
    /\ (invs[id].wrapped /\ invs[id].state = "returned")
         => /\ Cardinality(SinkAt(id)) = 2
            /\ AfterRecordLast(id)
            /\ \A k \in Min(SinkAt(id))..Max(SinkAt(id)) :
                 trace[k].ev = "sink"
                   => \/ trace[k].inv = id
                      \/ NestedIn(trace[k].inv, id)
                      \/ invs[trace[k].inv].thread # invs[id].thread

\* a returned invocation with sink calls of a nested invocation and of the
\* other thread between its two records
C4_Witness ==
  \E id \in Ids :
    /\ invs[id].wrapped
    /\ invs[id].state = "returned"
    /\ \E k \in Min(SinkAt(id))..Max(SinkAt(id)) :
         trace[k].ev = "sink" /\ NestedIn(trace[k].inv, id)
    /\ \E k \in Min(SinkAt(id))..Max(SinkAt(id)) :
         trace[k].ev = "sink" /\ invs[trace[k].inv].thread # invs[id].thread

\* C5: LoggedObj returns the instance it was given, leaves the type of every
\* instance and the instances it was not given as they were, and a call on
\* an instance never given to LoggedObj gives the sink nothing.
C5_OnlyTheInstance ==
  /\ \A o \in {"o1", "o2"} :
       /\ objs[o].cls = target
       /\ (install[o].called /\ ~install[o].raised) => install[o].result = o
       /\ ~install[o].called => objs[o].dict = InitObjs(target)[o].dict
  /\ decl = FixedDecl
  /\ ~install["Logged"].called => proxy = NoProxy
  /\ \A id \in Ids :
       (invs[id].obj \in {"o1", "o2"} /\ ~install[invs[id].obj].called)
         => ~invs[id].wrapped /\ SinkAt(id) = {}

\* o1 went through LoggedObj, and a call on its sibling o2 has returned
C5_Witness ==
  /\ install["o1"].called
  /\ ~install["o2"].called
  /\ \E id \in Ids :
       invs[id].obj = "o2" /\ invs[id].state = "returned" /\ invs[id].name = "base1"

\* C6: the namespace of the instrumented type has exactly one wrapped entry
\* per public name that the target or an ancestor defines as a callable,
\* the entry wraps the most-derived definition of the name, and no name is
\* installed twice.
C6_OneEntryPerMemberMostDerived ==
  proxy.built =>
    /\ DOMAIN proxy.ns
         = {n \in Names : /\ ~StartsWithUnderscore(n)
                          /\ \E k \in 1..Len(MroOf[proxy.target]) :
                               Callable(decl[MroOf[proxy.target][k]][n])}
    /\ \A n \in DOMAIN proxy.ns :
         /\ proxy.ns[n].kind = "wrapper"
         /\ proxy.ns[n].function = GetAttr(proxy.target, n)
    /\ \A j, k \in 1..Len(proxy.installs) :
         proxy.installs[j] = proxy.installs[k] => j = k

C8_MetaclassComposed ==
  install["Logged"].called =>
    /\ ~install["Logged"].raised
    /\ proxy.built
    /\ \E k \in 1..Len(proxy.steps) : proxy.steps[k] = "discovery"
    /\ \A h \in MetaHooks(MetaOf(target)) :
         \E k \in 1..Len(proxy.steps) : proxy.steps[k] = MetaOf(target) \o "." \o h

\* whether o.n was a public attribute that is not callable before any
\* installation
PublicValue(o, n) ==
  /\ ~StartsWithUnderscore(n)
  /\ \/ n \in DOMAIN InitObjs(target)[o].dict
     \/ (Owner(target, n) # "" /\ ~Callable(GetAttr(target, n)))

\* C9: Logged and LoggedObj complete without raising, leave every public
\* attribute that is not callable unwrapped, and wrap every public callable
\* member.
C9_NonCallablesSkipped ==
  /\ install["Logged"].called =>
       /\ ~install["Logged"].raised
       /\ \A n \in Names :
            /\ PublicValue("p1", n) => ~(n \in DOMAIN proxy.ns)
            /\ PublicCallable(target, n) => n \in DOMAIN proxy.ns
  /\ \A o \in {"o1", "o2"} :
       install[o].called =>
         /\ ~install[o].raised
         /\ \A n \in Names :
              /\ PublicValue(o, n) => Resolve(o, n) = NotCallable
              /\ (PublicValue(o, n) /\ n \in DOMAIN InitObjs(target)[o].dict)
                   => objs[o].dict[n] = InitObjs(target)[o].dict[n]
              /\ PublicCallable(target, n) => Resolve(o, n).c = "wrapper"

RECURSIVE Rendered(_, _)
\* the positional values in order, then name=value in order, ", " between
Rendered(pos, kw) ==
  IF pos # <<>>
  THEN Str(Head(pos)) \o (IF Len(pos) + Len(kw) > 1 THEN ", " ELSE "")
         \o Rendered(Tail(pos), kw)
  ELSE IF kw # <<>>
  THEN Head(kw).k \o "=" \o Str(Head(kw).v) \o (IF Len(kw) > 1 THEN ", " ELSE "")
         \o Rendered(pos, Tail(kw))
  ELSE ""

\* the call record of every wrapped invocation carries its arguments as
\* text; the scenarios of the specification give "", "24, 42", "2, arg2=4"
CallRecordText ==
  \A id \in Ids :
    (invs[id].wrapped /\ SinkAt(id) # {})
      => /\ trace[Min(SinkAt(id))].rec.args[2]
              = StrV(Rendered(invs[id].pos, invs[id].kw))
         /\ (invs[id].pos = <<>> /\ invs[id].kw = <<>>)
              => trace[Min(SinkAt(id))].rec.args[2].s = ""
         /\ (invs[id].pos = <<IntV(24), IntV(42)>> /\ invs[id].kw = <<>>)
              => trace[Min(SinkAt(id))].rec.args[2].s = "24, 42"
         /\ (invs[id].pos = <<IntV(2)>> /\ Len(invs[id].kw) = 1)
              => trace[Min(SinkAt(id))].rec.args[2].s = "2, arg2=4"
         /\ (invs[id].pos = <<>> /\ Len(invs[id].kw) = 2)
              => trace[Min(SinkAt(id))].rec.args[2].s = "arg2=4, arg1=2"

\* C10 as stated: the call record carries the rendered arguments and the
\* result record carries the returned value rendered as text.
C10_ResultHandedAsText ==
  /\ CallRecordText
  /\ \A id \in Ids :
       (invs[id].wrapped /\ invs[id].state = "returned" /\ invs[id].outcome.o = "return")
         => trace[Max(SinkAt(id))].rec.args[2] = StrV(Str(invs[id].outcome.v))

\* C10, amended: the call record carries the rendered arguments, and the
\* result record carries the returned value itself, not a rendering of it.
C10_ResultHandedAsIs ==
  /\ CallRecordText
  /\ \A id \in Ids :
       (invs[id].wrapped /\ invs[id].state = "returned" /\ invs[id].outcome.o = "return")
         => trace[Max(SinkAt(id))].rec.args[2] = invs[id].outcome.v

\* base1(2, arg2=4) has returned 6 through the wrapper
C10_Witness ==
  \E id \in Ids :
    /\ invs[id].wrapped
    /\ invs[id].state = "returned"
    /\ invs[id].pos = <<IntV(2)>>
    /\ invs[id].kw = <<[k |-> "arg2", v |-> IntV(4)]>>
    /\ invs[id].outcome = Ret(IntV(6))

====
